---- MODULE Spec2Model ----
(***************************************************************************)
(* Model of the doclet normalisation handlers of jsdoc-plugin-esnext       *)
(* (src/index.js): symbolFound, parseComplete and processingComplete.      *)
(*                                                                         *)
(* A JavaScript string is a sequence of atoms.  The characters '#' and '.' *)
(* are atoms of their own, every other atom stands for a run of characters *)
(* holding neither of them ("Foo", "exports", "module:" ...).  The value   *)
(* undefined is the reserved one-atom sequence Undef; inside a template    *)
(* literal it prints as the text "undefined".                              *)
(***************************************************************************)
EXTENDS Integers, Sequences, FiniteSets, TLC

VARIABLES doclets, pre, snap, staticSeen, augs, pc

vars == <<doclets, pre, snap, staticSeen, augs, pc>>

\* ------------------------------------------------------------------ bounds
MaxDoclets == 2
MaxAug == 1
MaxExportDoclets == 3
MaxMalformedDoclets == 2

\* ------------------------------------------------------------- JS strings
Undef == <<"<undefined>">>
Hash == "#"
Dot == "."

Str(a) == <<a>>
ModuleExports == <<"module", ".", "exports">>
ThisDot == <<"this", ".">>

\* truthiness of a string-or-undefined value
Truthy(s) == s # Undef /\ s # <<>>

\* `${v}` inside a template literal
ToStr(s) == IF s = Undef THEN <<"undefined">> ELSE s

\* String.prototype.includes(c) for a one-character c
Includes(s, c) == \E i \in 1..Len(s) : s[i] = c

\* String.prototype.startsWith(c)
StartsWith(s, c) == Len(s) > 0 /\ s[1] = c

FirstIndex(s, c) == CHOOSE i \in 1..Len(s) : s[i] = c /\ \A j \in 1..(i-1) : s[j] # c

\* String.prototype.replace(c, r) with a string pattern: first occurrence only
ReplaceFirst(s, c, r) ==
    IF Includes(s, c) THEN [s EXCEPT ![FirstIndex(s, c)] = r] ELSE s

\* `${a}#${b}`
HashJoin(a, b) == ToStr(a) \o <<Hash>> \o ToStr(b)
DotJoin(a, b) == ToStr(a) \o <<Dot>> \o ToStr(b)

\* number of leading '#' characters
RECURSIVE LeadingHashes(_)
LeadingHashes(s) ==
    IF Len(s) > 0 /\ s[1] = Hash THEN 1 + LeadingHashes(Tail(s)) ELSE 0

\* --------------------------------------------------- record / event shape
\* e.code.*        : name type memberof scope
\* e.code.node.*   : nodeType keyType keyIdName nodeStatic valueType
\* e.astnode.*     : astType astStatic parentType declIdName parentClassType
\*                   parentClassName leftType leftPropType leftPropName
\* doclet.*        : name longname memberof kind scope access undocumented id
\* doclet.meta.code: codeName type nodeType keyType keyIdName nodeStatic valueType
\* copy marks a record appended by the host's augmentation step.
\* hasDeclaration says whether e.astnode.parent.declaration is there.
\* rawName, rawMemberof and rawScope keep e.code.name, e.code.memberof and
\* e.code.scope as the extractor delivered them; no handler reads them.
\* typeTag is the trimmed capture of /@type\s*\{([^}]+)\}/ in doclet.description
\* (Undef when there is no match), propKey is node.properties[0].key.name.
Base ==
    [ name |-> Undef, type |-> "none", memberof |-> Undef, scope |-> "global",
      nodeType |-> "none", keyType |-> "none", keyIdName |-> Undef,
      nodeStatic |-> FALSE, valueType |-> "none",
      astType |-> "none", astStatic |-> FALSE, parentType |-> "none",
      declIdName |-> Undef, parentClassType |-> "none", parentClassName |-> Undef,
      leftType |-> "none", leftPropType |-> "none", leftPropName |-> Undef,
      kind |-> "member", access |-> "unset", undocumented |-> FALSE,
      typeTag |-> Undef, propKey |-> Undef,
      lnForm |-> "none", longname |-> Undef, id |-> Undef, codeName |-> Undef,
      copy |-> FALSE, hasDeclaration |-> TRUE,
      rawName |-> Undef, rawMemberof |-> Undef, rawScope |-> "global" ]

\* ------------------------------------------------------------ symbolFound
\* line 27 reads parent.declaration.id with no guard on the declaration
SFThrows(e) ==
    /\ e.name = ModuleExports
    /\ e.type \in {"ClassDeclaration", "FunctionDeclaration", "ObjectExpression"}
    /\ e.parentType = "ExportDefaultDeclaration"
    /\ ~e.hasDeclaration

\* a resolver that has one fallback name for every unnamed export
SFPhase1OneFallback(e) ==
    IF e.name = ModuleExports
       /\ e.type \in {"ClassDeclaration", "FunctionDeclaration", "ObjectExpression"}
       /\ e.parentType = "ExportDefaultDeclaration"
    THEN IF Truthy(e.declIdName) THEN [e EXCEPT !.name = e.declIdName]
         ELSE [e EXCEPT !.name = Str("defaultExport")]
    ELSE e

\* Phase 1: default export names
SFPhase1(e) ==
    IF e.name = ModuleExports
       /\ e.type \in {"ClassDeclaration", "FunctionDeclaration", "ObjectExpression"}
       /\ e.parentType = "ExportDefaultDeclaration"
    THEN IF Truthy(e.declIdName) THEN [e EXCEPT !.name = e.declIdName]
         ELSE IF e.type = "FunctionDeclaration" /\ e.declIdName = Undef
              THEN [e EXCEPT !.name = Str("anonymousFunction")]
         ELSE IF e.type = "ObjectExpression"
              THEN [e EXCEPT !.name = Str("defaultExport")]
         ELSE e
    ELSE e

\* a relinking that sets the owner and leaves the extractor's scope
SFPhase15MemberofOnly(e) ==
    IF e.type = "MethodDefinition" /\ e.parentType = "ClassBody"
       /\ e.parentClassType = "ClassDeclaration" /\ Truthy(e.parentClassName)
    THEN [e EXCEPT !.memberof = e.parentClassName]
    ELSE e

\* Phase 1.5: class member relationships
SFPhase15(e) ==
    IF e.type = "MethodDefinition" /\ e.parentType = "ClassBody"
       /\ e.parentClassType = "ClassDeclaration" /\ Truthy(e.parentClassName)
    THEN [e EXCEPT !.memberof = e.parentClassName, !.scope = "instance"]
    ELSE e

\* Phase 1.6: static class properties
\* a stamping that does not ask for the static keyword
SFPhase16AnyProperty(e) ==
    IF e.type = "ClassProperty"
    THEN [e EXCEPT !.scope = "static",
                   !.memberof = IF Truthy(e.memberof) /\ Includes(e.memberof, Hash)
                                THEN ReplaceFirst(e.memberof, Hash, Dot)
                                ELSE e.memberof]
    ELSE e

SFPhase16(e) ==
    IF e.type = "ClassProperty" /\ e.astStatic = TRUE
    THEN [e EXCEPT !.scope = "static",
                   !.memberof = IF Truthy(e.memberof) /\ Includes(e.memberof, Hash)
                                THEN ReplaceFirst(e.memberof, Hash, Dot)
                                ELSE e.memberof]
    ELSE e

\* Phase 2: native private methods
SFPhase2(e) ==
    IF e.type = "MethodDefinition" /\ e.keyType = "PrivateName" /\ Truthy(e.keyIdName)
    THEN [e EXCEPT !.name = e.keyIdName]
    ELSE e

\* Phase 3: assignments to this.#property
SFPhase3(e) ==
    IF e.name = ThisDot /\ e.astType = "AssignmentExpression"
       /\ e.leftType = "MemberExpression" /\ e.leftPropType = "PrivateName"
       /\ Truthy(e.leftPropName)
    THEN [e EXCEPT !.name = e.leftPropName]
    ELSE e

symbolFound(e) == SFPhase3(SFPhase2(SFPhase16(SFPhase15(SFPhase1(e)))))

\* ---------------------------------------------------------- parseComplete
Indices(ds) == 1..Len(ds)

MinOf(S) == CHOOSE m \in S : \A n \in S : m <= n

\* Phase 1: names of undocumented ClassPrivateProperty placeholders
privatePropNames(ds) ==
    { ds[i].name : i \in { j \in Indices(ds) :
                           ds[j].undocumented /\ ds[j].type = "ClassPrivateProperty" } }

\* a merge that also makes the record visible
PCShadowPromote(d, ppn) ==
    IF d.kind = "member" /\ d.scope = "inner" /\ d.name # Undef /\ d.name \in ppn
    THEN LET n == <<Hash>> \o d.name
         IN [d EXCEPT !.name = n, !.longname = HashJoin(d.memberof, n),
                      !.access = "private", !.scope = "instance",
                      !.undocumented = FALSE]
    ELSE d

\* Phase 2, first block: value-carrying assignment doclets (shadow merge)
PCShadow(d, ppn) ==
    IF d.kind = "member" /\ d.scope = "inner" /\ d.name # Undef /\ d.name \in ppn
    THEN LET n == <<Hash>> \o d.name
         IN [d EXCEPT !.name = n, !.longname = HashJoin(d.memberof, n),
                      !.access = "private", !.scope = "instance"]
    ELSE d

isArrowMethod(d) ==
    d.kind = "member"
    /\ (d.type = "ArrowFunctionExpression" \/ d.valueType = "ArrowFunctionExpression")

\* a reclassification that looks at the descriptor type only
PCArrowTypeOnly(d) ==
    IF d.kind = "member" /\ d.type = "ArrowFunctionExpression"
    THEN [d EXCEPT !.kind = "function"] ELSE d

PCArrow(d) == IF isArrowMethod(d) THEN [d EXCEPT !.kind = "function"] ELSE d

isPrivateMethod(d) == d.nodeType = "MethodDefinition" /\ d.keyType = "PrivateName"

isPrivateProperty(d) ==
    d.type = "ClassPrivateProperty"
    \/ (d.nodeType = "PropertyDefinition" /\ d.keyType = "PrivateName")

\* a contract that passes over the records that never render
PCPrivateVisibleOnly(d) ==
    IF (isPrivateMethod(d) \/ isPrivateProperty(d)) /\ ~d.undocumented
    THEN LET n == IF ~StartsWith(d.name, Hash) THEN <<Hash>> \o d.name ELSE d.name
             l == IF ~Truthy(d.longname) \/ d.longname = d.memberof
                  THEN HashJoin(d.memberof, n) ELSE d.longname
         IN [d EXCEPT !.name = n, !.longname = l, !.access = "private"]
    ELSE d

\* common private-member contract
PCPrivate(d) ==
    IF isPrivateMethod(d) \/ isPrivateProperty(d)
    THEN LET n == IF ~StartsWith(d.name, Hash) THEN <<Hash>> \o d.name ELSE d.name
             l == IF ~Truthy(d.longname) \/ d.longname = d.memberof
                  THEN HashJoin(d.memberof, n) ELSE d.longname
         IN [d EXCEPT !.name = n, !.longname = l, !.access = "private"]
    ELSE d

\* line 135 calls doclet.name.startsWith with no guard on the name
PCPrivateThrows(d) == (isPrivateMethod(d) \/ isPrivateProperty(d)) /\ d.name = Undef

\* a rewrite that stamps the scope and forgets the separators
StaticRewriteScopeOnly(d) == [d EXCEPT !.scope = "static"]

\* the scope / separator rewrite shared by Phases 2.1, 2.2 and 2.9
StaticRewrite(d) ==
    [d EXCEPT !.scope = "static",
              !.longname = IF Truthy(d.longname) /\ Includes(d.longname, Hash)
                           THEN ReplaceFirst(d.longname, Hash, Dot) ELSE d.longname,
              !.memberof = IF Truthy(d.memberof) /\ Includes(d.memberof, Hash)
                           THEN ReplaceFirst(d.memberof, Hash, Dot) ELSE d.memberof]

\* Phase 2.1: static class properties
PCStatic21(d) ==
    IF d.type \in {"ClassProperty", "MethodDefinition"}
       /\ d.nodeStatic = TRUE
       /\ Truthy(d.memberof)
       /\ ~StartsWith(d.memberof, "module:")
    THEN StaticRewrite(d)
    ELSE d

\* Phase 2.2: ES6 class mixin static members
PCStatic22(d) ==
    IF d.type \in {"ClassProperty", "MethodDefinition"}
    THEN LET isES6ClassStatic == d.nodeStatic = TRUE
             isCurrentlyStatic ==
                 \/ d.scope = "static"
                 \/ (Truthy(d.longname) /\ Includes(d.longname, Dot))
                 \/ (Truthy(d.memberof) /\ Includes(d.memberof, Dot))
         IN IF isES6ClassStatic /\ isCurrentlyStatic THEN StaticRewrite(d) ELSE d
    ELSE d

\* Phase 2: the body of the per-doclet loop
PCPhase2Doclet(d, ppn) == PCStatic22(PCStatic21(PCPrivate(PCArrow(PCShadow(d, ppn)))))

PCPhase2(ds) ==
    LET ppn == privatePropNames(ds)
    IN [i \in Indices(ds) |-> PCPhase2Doclet(ds[i], ppn)]

\* Phase 2.9 step 1 (and processingComplete's collection loop)
staticMemberNames(ds) ==
    { ds[i].name : i \in { j \in Indices(ds) : ds[j].nodeStatic = TRUE } }

\* a propagation that stamps every record once some static name exists
PCPhase29Any(ds) ==
    LET names == staticMemberNames(ds)
    IN [i \in Indices(ds) |->
          IF names # {} THEN StaticRewrite(ds[i]) ELSE ds[i]]

\* Phase 2.9 step 2
PCPhase29(ds) ==
    LET names == staticMemberNames(ds)
    IN [i \in Indices(ds) |->
          IF ds[i].name \in names THEN StaticRewrite(ds[i]) ELSE ds[i]]

\* Phase 3, default export function names
PCExportFunction(ds, d) ==
    IF d.kind = "function" /\ d.name = Str("exports") /\ d.memberof = Str("module")
    THEN LET cands == { j \in Indices(ds) : ds[j].kind = "function"
                                             /\ ds[j].name # Str("exports")
                                             /\ ds[j].scope = "global" }
         IN IF cands # {}
            THEN LET f == ds[MinOf(cands)]
                 IN [d EXCEPT !.name = f.name, !.longname = f.name, !.memberof = Undef]
            ELSE d
    ELSE d

\* Phase 3, default export object literals
PCExportObject(d) ==
    IF d.kind = "member" /\ d.name = Str("exports") /\ d.memberof = Str("module")
       /\ d.type = "ObjectExpression"
    THEN LET synth == ToStr(d.propKey) \o <<"Config">>
             objectName == IF Truthy(d.typeTag) THEN d.typeTag
                           ELSE IF Truthy(synth) THEN synth
                           ELSE Str("defaultExport")
         IN [d EXCEPT !.name = objectName, !.longname = objectName, !.memberof = Undef]
    ELSE d

FirstClass(ds) ==
    { j \in Indices(ds) : ds[j].kind = "class" /\ ds[j].name # Str("exports") }

MaxOf(S) == CHOOSE m \in S : \A n \in S : m >= n

\* a relinking that takes the last class record instead of the first
PCGlobalMethodLast(ds, d) ==
    IF d.kind = "function" /\ d.scope = "global" /\ d.nodeType = "MethodDefinition"
    THEN LET cands == FirstClass(ds)
         IN IF cands # {}
            THEN LET c == ds[MaxOf(cands)]
                     l == HashJoin(c.name, d.name)
                 IN [d EXCEPT !.scope = "instance", !.memberof = c.name,
                              !.longname = l, !.id = l]
            ELSE d
    ELSE d

\* Phase 3, class methods that got marked as global
PCGlobalMethod(ds, d) ==
    IF d.kind = "function" /\ d.scope = "global" /\ d.nodeType = "MethodDefinition"
    THEN LET cands == FirstClass(ds)
         IN IF cands # {}
            THEN LET c == ds[MinOf(cands)]
                     l == HashJoin(c.name, d.name)
                 IN [d EXCEPT !.scope = "instance", !.memberof = c.name,
                              !.longname = l, !.id = l]
            ELSE d
    ELSE d

\* Phase 3: one loop over the list, each iteration sees the earlier mutations
RECURSIVE PCPhase3(_, _)
PCPhase3(ds, i) ==
    IF i > Len(ds) THEN ds
    ELSE LET d1 == PCExportFunction(ds, ds[i])
             ds1 == [ds EXCEPT ![i] = d1]
             d2 == PCExportObject(d1)
             ds2 == [ds1 EXCEPT ![i] = d2]
             d3 == PCGlobalMethod(ds2, d2)
         IN PCPhase3([ds2 EXCEPT ![i] = d3], i + 1)

\* the records at which the Phase 2 loop throws, and the list as the loop
\* leaves it when it throws at the first of them
PCThrowAt(ds) == { i \in Indices(ds) : PCPrivateThrows(ds[i]) }

parseCompleteThrows(ds) == PCThrowAt(ds) # {}

PCPhase2Partial(ds) ==
    LET ppn == privatePropNames(ds)
        k == MinOf(PCThrowAt(ds))
    IN [i \in Indices(ds) |->
          IF i < k THEN PCPhase2Doclet(ds[i], ppn)
          ELSE IF i = k THEN PCArrow(PCShadow(ds[i], ppn))
          ELSE ds[i]]

\* a pass that drops a rehomed export wrapper as a duplicate
parseCompleteDropWrapper(ds) ==
    SelectSeq(PCPhase3(PCPhase29(PCPhase2(ds)), 1),
              LAMBDA d : ~(d.codeName = ModuleExports /\ d.memberof = Undef))

parseComplete(ds) ==
    IF parseCompleteThrows(ds) THEN PCPhase2Partial(ds)
    ELSE PCPhase3(PCPhase29(PCPhase2(ds)), 1)

\* ----------------------------------------------------- processingComplete
\* a final pass that looks at each record's own static flag only
processingCompleteOwnFlag(ds) ==
    [i \in Indices(ds) |->
          IF ds[i].nodeStatic = TRUE
          THEN [ds[i] EXCEPT !.scope = "static",
                             !.access = IF StartsWith(ds[i].name, Hash)
                                           /\ ds[i].access = "unset"
                                        THEN "private" ELSE ds[i].access]
          ELSE ds[i]]

\* line 274 calls doclet.name.startsWith on every record whose name is in
\* the set, the absent name included
PRThrowAt(ds) ==
    { i \in Indices(ds) : ds[i].name = Undef /\ Undef \in staticMemberNames(ds) }

processingCompleteThrows(ds) == PRThrowAt(ds) # {}

processingComplete(ds) ==
    LET names == staticMemberNames(ds)
    IN [i \in Indices(ds) |->
          IF processingCompleteThrows(ds) /\ i > MinOf(PRThrowAt(ds)) THEN ds[i]
          ELSE IF ds[i].name \in names
          THEN [ds[i] EXCEPT !.scope = "static",
                             !.access = IF StartsWith(ds[i].name, Hash)
                                           /\ ds[i].access = "unset"
                                        THEN "private" ELSE ds[i].access]
          ELSE ds[i]]

\* ------------------------------------------------- discovery events (input)
\* The extractor's events, one family per syntax form the handlers look at.
\* export default class Foo {} / export default class {} ; class B {}
ClassEvents ==
    { [Base EXCEPT !.name = ModuleExports, !.type = "ClassDeclaration",
                   !.astType = "ClassDeclaration", !.kind = "class",
                   !.parentType = "ExportDefaultDeclaration",
                   !.declIdName = n, !.lnForm = "top"] : n \in { Str("Foo"), Undef } }
    \cup
    { [Base EXCEPT !.name = Str("B"), !.type = "ClassDeclaration",
                   !.astType = "ClassDeclaration", !.kind = "class",
                   !.parentType = "Program", !.lnForm = "top"] }

\* export default function f() {} / export default function () {} ;
\* export default () => {} ; function f() {}
FunctionEvents ==
    { [Base EXCEPT !.name = ModuleExports, !.type = "FunctionDeclaration",
                   !.astType = "FunctionDeclaration", !.kind = "function",
                   !.parentType = "ExportDefaultDeclaration",
                   !.declIdName = n, !.lnForm = "top"] : n \in { Str("f"), Undef } }
    \cup
    { [Base EXCEPT !.name = ModuleExports, !.type = "ArrowFunctionExpression",
                   !.astType = "ArrowFunctionExpression", !.kind = "function",
                   !.parentType = "ExportDefaultDeclaration", !.scope = "static"],
      [Base EXCEPT !.name = Str("f"), !.type = "FunctionDeclaration",
                   !.astType = "FunctionDeclaration", !.kind = "function",
                   !.parentType = "Program", !.lnForm = "top"] }

\* export default { ... } ; module.exports = { ... }
ObjectEvents ==
    { [Base EXCEPT !.name = ModuleExports, !.type = "ObjectExpression",
                   !.astType = "ObjectExpression", !.kind = "member",
                   !.parentType = "ExportDefaultDeclaration", !.scope = "static"] }
    \cup
    { [Base EXCEPT !.name = ModuleExports, !.type = "ObjectExpression",
                   !.astType = "AssignmentExpression", !.kind = "member",
                   !.parentType = "ExpressionStatement", !.scope = "static",
                   !.typeTag = tk[1], !.propKey = tk[2]] :
        tk \in { <<Undef, Undef>>, <<Undef, Str("port")>>, <<Str("Settings"), Str("port")>> } }

\* where a method lives: <<parent class type, its declared name,
\*                          the extractor's memberof, the extractor's scope>>
MethodHomes ==
    { <<"ClassDeclaration", Str("Foo"), Str("module"), "global">>,
      <<"ClassDeclaration", Str("B"), Str("B"), "instance">>,
      <<"ClassExpression", Str("B"), Str("module"), "global">>,
      <<"ClassDeclaration", Undef, Str("module"), "global">> }

Method(n, priv, st, home, ln) ==
    [Base EXCEPT !.name = IF priv THEN <<>> ELSE n,
                 !.type = "MethodDefinition", !.nodeType = "MethodDefinition",
                 !.astType = "MethodDefinition", !.kind = "function",
                 !.keyType = IF priv THEN "PrivateName" ELSE "Identifier",
                 !.keyIdName = IF priv THEN n ELSE Undef,
                 !.nodeStatic = st, !.astStatic = st,
                 !.parentType = "ClassBody",
                 !.parentClassType = home[1], !.parentClassName = home[2],
                 !.memberof = home[3], !.scope = home[4], !.lnForm = ln]

\* m() {} , static m() {} , #m() {} , static #m() {}
FooHome == <<"ClassDeclaration", Str("Foo"), Str("module"), "global">>
AnonymousHome == <<"ClassDeclaration", Undef, Str("module"), "global">>

MethodEvents ==
    { Method(Str("x"), FALSE, FALSE, home, "hash") :
        home \in { h \in MethodHomes : h[2] # Str("B") \/ h[1] = "ClassExpression" } }
    \cup
    { Method(Str("x"), TRUE, st, FooHome, ln) :
        st \in BOOLEAN, ln \in { "none", "hash", "owner" } }
    \cup
    { Method(Str("x"), FALSE, TRUE, FooHome, "hash"),
      Method(Str("y"), FALSE, FALSE, FooHome, "hash") }

\* x = 1 , static x = 1 , h = () => {}
Property(st, m, ln) ==
    [Base EXCEPT !.name = Str("x"), !.type = "ClassProperty",
                 !.nodeType = "ClassProperty", !.astType = "ClassProperty",
                 !.keyType = "Identifier", !.kind = "member",
                 !.nodeStatic = st, !.astStatic = st, !.parentType = "ClassBody",
                 !.memberof = m, !.scope = "instance", !.lnForm = ln]

PropertyEvents ==
    { Property(TRUE, m, "hash") :
        m \in { Str("Foo"), <<"module:", "m">>, <<"Foo", Hash, "p">> } }
    \cup
    { Property(TRUE, Str("Foo"), "none"), Property(FALSE, Str("Foo"), "hash") }
    \cup
    { [Base EXCEPT !.name = Str("y"), !.type = "ClassProperty",
                   !.nodeType = "ClassProperty", !.astType = "ClassProperty",
                   !.keyType = "Identifier", !.kind = "member",
                   !.valueType = "ArrowFunctionExpression", !.parentType = "ClassBody",
                   !.memberof = Str("Foo"), !.scope = "instance", !.lnForm = "hash"] }

PrivateField(n, ty, nty, st, und, arrow, ln) ==
    [Base EXCEPT !.name = n, !.type = ty, !.nodeType = nty,
                 !.astType = nty, !.keyType = "PrivateName", !.keyIdName = Str("x"),
                 !.kind = "member", !.nodeStatic = st, !.astStatic = st,
                 !.undocumented = und, !.parentType = "ClassBody",
                 !.valueType = IF arrow THEN "ArrowFunctionExpression" ELSE "none",
                 !.memberof = Str("Foo"), !.scope = "instance", !.lnForm = ln]

\* #x = 1 , static #x = 1 , #x = () => {} ; documented or a bare placeholder
PrivateFieldEvents ==
    { PrivateField(Str("x"), "ClassPrivateProperty", "ClassPrivateProperty", st, FALSE, FALSE, ln) :
        st \in BOOLEAN, ln \in { "none", "hash" } }
    \cup
    { PrivateField(Str("x"), "ClassPrivateProperty", "ClassPrivateProperty", st, TRUE, FALSE, "hash") :
        st \in BOOLEAN }
    \cup
    { PrivateField(<<Hash, "x">>, "ClassPrivateProperty", "ClassPrivateProperty", FALSE, TRUE, FALSE, "hash"),
      PrivateField(<<Hash, "x">>, "ClassPrivateProperty", "ClassPrivateProperty", FALSE, FALSE, FALSE, "none"),
      PrivateField(Str("x"), "ClassPrivateProperty", "ClassPrivateProperty", FALSE, FALSE, TRUE, "none"),
      PrivateField(Str("x"), "ClassPrivateProperty", "ClassPrivateProperty", FALSE, FALSE, TRUE, "hash"),
      PrivateField(Str("x"), "PropertyDefinition", "PropertyDefinition", FALSE, FALSE, FALSE, "none"),
      PrivateField(Str("x"), "PropertyDefinition", "PropertyDefinition", TRUE, FALSE, FALSE, "none"),
      PrivateField(Str("x"), "ClassProperty", "PropertyDefinition", TRUE, FALSE, FALSE, "none"),
      PrivateField(Str("x"), "ArrowFunctionExpression", "PropertyDefinition", FALSE, FALSE, TRUE, "none") }

\* this.#x = 123 , this.#x = () => {} , and a 'this.' record of another shape
AssignmentEvents ==
    { [Base EXCEPT !.name = ThisDot, !.type = tu[1], !.nodeType = tu[1],
                   !.astType = "AssignmentExpression", !.leftType = "MemberExpression",
                   !.leftPropType = "PrivateName", !.leftPropName = Str("x"),
                   !.kind = "member", !.scope = "inner", !.memberof = Str("Foo"),
                   !.undocumented = tu[2], !.lnForm = "none"] :
        tu \in { <<"Literal", FALSE>>, <<"Literal", TRUE>>,
                 <<"ArrowFunctionExpression", FALSE>> } }
    \cup
    { [Base EXCEPT !.name = ThisDot, !.type = "Literal", !.nodeType = "Literal",
                   !.astType = "AssignmentExpression", !.leftType = "MemberExpression",
                   !.leftPropType = "Identifier", !.leftPropName = Str("x"),
                   !.kind = "member", !.scope = "inner", !.memberof = Str("Foo")] }

\* a member of a traditional object mixin: const M = { x() {} }
MixinEvents ==
    { [Base EXCEPT !.name = Str("x"), !.type = "FunctionExpression",
                   !.nodeType = "FunctionExpression", !.astType = "Property",
                   !.kind = "function", !.scope = "instance", !.memberof = Str("M"),
                   !.parentType = "ObjectExpression", !.lnForm = "hash"] }

Events ==
    ClassEvents \cup FunctionEvents \cup ObjectEvents \cup MethodEvents
    \cup PropertyEvents \cup PrivateFieldEvents \cup AssignmentEvents \cup MixinEvents

\* the events of a module with default exports, classes and their methods
ExportEvents ==
    { e \in ClassEvents : e.declIdName = Str("Foo") \/ e.name = Str("B") }
    \cup
    { Method(Str("x"), FALSE, st, FooHome, "hash") : st \in BOOLEAN }
    \cup
    { Method(Str("y"), FALSE, FALSE, FooHome, "hash"),
      Method(Str("x"), FALSE, FALSE, <<"ClassExpression", Str("B"), Str("module"), "global">>, "hash"),
      Method(Str("x"), FALSE, FALSE, AnonymousHome, "hash") }
    \cup
    { e \in FunctionEvents : e.type = "ArrowFunctionExpression" \/ e.name = Str("f") }

\* records and nodes with a field missing: a private field and a private
\* method whose name the extractor left out, a static class property with no
\* name, a default export whose parent node carries no declaration, a record
\* named '#x' that carries no descriptor at all (filed from a comment alone);
\* and a few well-formed events of the same module
MalformedEvents ==
    { [Base EXCEPT !.name = <<Hash, "x">>, !.kind = "member", !.scope = "instance",
                   !.memberof = Str("Foo"), !.lnForm = "hash"] }
    \cup
    { [PrivateField(Undef, "ClassPrivateProperty", "ClassPrivateProperty",
                    FALSE, FALSE, FALSE, "none") EXCEPT !.keyIdName = Undef],
      [Method(Undef, TRUE, FALSE, FooHome, "none") EXCEPT !.name = Undef],
      [Property(TRUE, Str("Foo"), "none") EXCEPT !.name = Undef] }
    \cup
    { [e EXCEPT !.hasDeclaration = FALSE, !.declIdName = Undef] :
        e \in { c \in ClassEvents : c.declIdName = Str("Foo") } }
    \cup
    { e \in ClassEvents : e.declIdName = Str("Foo") \/ e.name = Str("B") }
    \cup
    { Property(st, Str("Foo"), "hash") : st \in BOOLEAN }
    \cup
    { PrivateField(Str("x"), "ClassPrivateProperty", "ClassPrivateProperty",
                   FALSE, FALSE, FALSE, "hash") }

\* ------------------------------------------------ the host around the plugin
\* The extractor turns the event's code object into the doclet: the code
\* object stays reachable as doclet.meta.code, a name still equal to the
\* export slot 'module.exports' is split into memberof 'module' and name
\* 'exports', and the longname is either left out or built from memberof and
\* name in one of the extractor's forms.
NewDoclet(e) ==
    LET exp == e.name = ModuleExports
        n == IF exp THEN Str("exports") ELSE e.name
        m == IF exp THEN Str("module") ELSE e.memberof
        l == CASE exp -> ModuleExports
               [] e.lnForm = "top" -> n
               [] e.lnForm = "hash" -> HashJoin(m, n)
               [] e.lnForm = "owner" -> m
               [] OTHER -> Undef
    IN [e EXCEPT !.codeName = e.name, !.name = n, !.memberof = m, !.longname = l]

\* The augmentation step copies a static-flagged record into another owner
\* as an instance-scoped record that has lost the static flag and kept the
\* name.
AugmentCopy(d) ==
    [d EXCEPT !.memberof = Str("Sub"), !.longname = HashJoin(Str("Sub"), d.name),
              !.scope = "instance", !.nodeStatic = FALSE, !.id = Undef,
              !.copy = TRUE]

\* the record the host files for an event once symbolFound has returned
Filed(e) ==
    [NewDoclet(symbolFound(e)) EXCEPT !.rawName = e.name, !.rawMemberof = e.memberof,
                                      !.rawScope = e.scope]

\* ------------------------------------------------------------ state machine
Init ==
    /\ doclets = <<>>
    /\ pre = <<>>
    /\ snap = <<>>
    /\ staticSeen = {}
    /\ augs = 0
    /\ pc = "discover"

\* one discovery event: the handler runs, the host files the record
SymbolFound ==
    /\ pc = "discover"
    /\ Len(doclets) < MaxDoclets
    /\ \E e \in Events :
         LET d == Filed(e)
         IN /\ doclets' = Append(doclets, d)
            /\ pre' = Append(pre, d)
    /\ UNCHANGED <<snap, staticSeen, augs, pc>>

\* the collection-complete event (first run, and the repeated run)
ParseComplete ==
    /\ pc \in {"discover", "processed"}
    /\ Len(doclets) > 0
    /\ doclets' = parseComplete(doclets)
    /\ staticSeen' = IF parseCompleteThrows(doclets) THEN staticSeen
                     ELSE staticSeen \cup staticMemberNames(PCPhase2(doclets))
    /\ pc' = IF parseCompleteThrows(doclets) THEN "thrown"
             ELSE IF pc = "discover" THEN "parsed" ELSE "parsed2"
    /\ UNCHANGED <<pre, snap, augs>>

\* the host's augmentation between the two completion events
Augment ==
    /\ pc = "parsed"
    /\ augs < MaxAug
    /\ \E i \in Indices(doclets) :
         /\ doclets[i].nodeStatic = TRUE
         /\ doclets' = Append(doclets, AugmentCopy(doclets[i]))
         /\ pre' = Append(pre, AugmentCopy(doclets[i]))
    /\ augs' = augs + 1
    /\ UNCHANGED <<snap, staticSeen, pc>>

\* the processing-complete event (first run, and the repeated run)
ProcessingComplete ==
    /\ pc \in {"parsed", "parsed2"}
    /\ doclets' = processingComplete(doclets)
    /\ staticSeen' = staticSeen \cup staticMemberNames(doclets)
    /\ snap' = IF pc = "parsed" THEN processingComplete(doclets) ELSE snap
    /\ pc' = IF processingCompleteThrows(doclets) THEN "thrown"
             ELSE IF pc = "parsed" THEN "processed" ELSE "done"
    /\ UNCHANGED <<pre, augs>>

Next == SymbolFound \/ ParseComplete \/ Augment \/ ProcessingComplete

Spec == Init /\ [][Next]_vars

\* discovery over the events of an exporting module, one record more
SymbolFoundExport ==
    /\ pc = "discover"
    /\ Len(doclets) < MaxExportDoclets
    /\ \E e \in ExportEvents :
         LET d == Filed(e)
         IN /\ doclets' = Append(doclets, d)
            /\ pre' = Append(pre, d)
    /\ UNCHANGED <<snap, staticSeen, augs, pc>>

NextExport == SymbolFoundExport \/ ParseComplete \/ Augment \/ ProcessingComplete

SpecExport == Init /\ [][NextExport]_vars

\* the same machine over MalformedEvents; an exception ends the run
SymbolFoundMalformed ==
    /\ pc = "discover"
    /\ Len(doclets) < MaxMalformedDoclets
    /\ \E e \in MalformedEvents :
         IF SFThrows(e)
         THEN pc' = "thrown" /\ UNCHANGED <<doclets, pre>>
         ELSE /\ doclets' = Append(doclets, Filed(e))
              /\ pre' = Append(pre, Filed(e))
              /\ pc' = pc
    /\ UNCHANGED <<snap, staticSeen, augs>>

NextMalformed == SymbolFoundMalformed \/ ParseComplete \/ Augment \/ ProcessingComplete

SpecMalformed == Init /\ [][NextMalformed]_vars

\* ------------------------------------------------------- claim vocabulary
\* records filed by discovery events (not appended by augmentation)
Found == { i \in Indices(doclets) : ~doclets[i].copy }

\* the list as parseComplete first received it
Inputs == SelectSeq(pre, LAMBDA d : ~d.copy)

\* owner + separator + name, the separator chosen by the scope
ScopedLongname(d) ==
    IF d.scope = "static" THEN DotJoin(d.memberof, d.name)
    ELSE HashJoin(d.memberof, d.name)

\* '#' still stands between owner and member, or inside the owner
HashSeparated(d) ==
    \/ (Truthy(d.memberof) /\ Includes(d.memberof, Hash))
    \/ (Truthy(d.longname) /\ d.longname = HashJoin(d.memberof, d.name))

\* ---------------------------------------------------------------- claims

\* C1: after symbolFound and parseComplete every private method record
\* (method definition with a private-name key, static or not, with or
\* without an extractor longname) has access = private, a name with exactly
\* one leading '#', and longname = memberof + separator + name, '.' for
\* static scope and '#' otherwise.
C1_PrivateMethodContract ==
    pc = "parsed" =>
        \A i \in Found :
            isPrivateMethod(doclets[i]) =>
                /\ doclets[i].access = "private"
                /\ LeadingHashes(doclets[i].name) = 1
                /\ doclets[i].longname = ScopedLongname(doclets[i])

\* C2: after symbolFound and parseComplete every static class property
\* (module-namespace owners included) has scope = static, no '#' left in
\* longname or memberof, and a longname, when it has one, of the form
\* memberof + '.' + name.
C2_StaticProperty ==
    pc = "parsed" =>
        \A i \in Found :
            (doclets[i].type = "ClassProperty" /\ doclets[i].nodeStatic) =>
                /\ doclets[i].scope = "static"
                /\ ~Includes(doclets[i].longname, Hash)
                /\ ~Includes(doclets[i].memberof, Hash)
                /\ (doclets[i].keyType = "Identifier" /\ Truthy(doclets[i].longname)
                      => doclets[i].longname = DotJoin(doclets[i].memberof, doclets[i].name))

\* a static property of a module-namespace owner whose '#' longname was rewritten
C2_Witness ==
    /\ pc = "parsed"
    /\ \E i \in Found :
          /\ doclets[i].type = "ClassProperty" /\ doclets[i].nodeStatic
          /\ StartsWith(doclets[i].memberof, "module:")
          /\ Includes(pre[i].longname, Hash)
          /\ doclets[i].longname = DotJoin(doclets[i].memberof, doclets[i].name)

\* C3: a static-flagged record and an instance-scoped, flag-less copy of the
\* same name added by augmentation both have scope = static after
\* processingComplete.
C3_AugmentedCopyStatic ==
    pc = "processed" =>
        \A i, j \in Indices(doclets) :
            ( /\ doclets[i].nodeStatic
              /\ doclets[j].copy /\ ~doclets[j].nodeStatic
              /\ pre[j].scope = "instance"
              /\ doclets[j].name = doclets[i].name ) =>
                doclets[i].scope = "static" /\ doclets[j].scope = "static"

C3_Witness ==
    /\ pc = "processed"
    /\ \E i, j \in Indices(doclets) :
          /\ doclets[i].nodeStatic /\ ~doclets[i].copy
          /\ doclets[j].copy /\ ~doclets[j].nodeStatic
          /\ pre[j].scope = "instance"
          /\ doclets[j].name = doclets[i].name
          /\ doclets[j].scope = "static"

\* C4: at the end of the pipeline no record stamped scope = static by the
\* name-based propagation keeps '#' as the owner separator in longname or
\* memberof, augmentation copies included.
C4_StaticSeparator ==
    pc = "processed" =>
        \A i \in Indices(doclets) :
            (doclets[i].scope = "static" /\ doclets[i].name \in staticSeen) =>
                ~HashSeparated(doclets[i])

\* C5: a second parseComplete / processingComplete run over the result of
\* the first changes no field of any record.
C5_Idempotent == pc = "done" => doclets = snap

\* the record of "export default class Foo {}"
DefaultFoo(d) ==
    /\ d.kind = "class" /\ d.type = "ClassDeclaration"
    /\ d.parentType = "ExportDefaultDeclaration" /\ d.declIdName = Str("Foo")

\* a non-static method defined directly in the body of class Foo
MethodOfFoo(d) ==
    /\ d.type = "MethodDefinition" /\ d.parentType = "ClassBody"
    /\ d.parentClassType = "ClassDeclaration" /\ d.parentClassName = Str("Foo")
    /\ ~d.nodeStatic /\ ~d.copy

HasDefaultFoo == \E j \in Indices(doclets) : DefaultFoo(doclets[j])

\* C6 as stated: the default-exported class record is named Foo by
\* symbolFound, and every non-static method of its body has memberof = Foo
\* and scope = instance after symbolFound, after parseComplete and after
\* processingComplete.
C6_AsStated ==
    (pc \in {"discover", "parsed", "processed"} /\ HasDefaultFoo) =>
        \A i \in Indices(doclets) :
            /\ DefaultFoo(doclets[i]) => doclets[i].codeName = Str("Foo")
            /\ MethodOfFoo(doclets[i]) =>
                  doclets[i].memberof = Str("Foo") /\ doclets[i].scope = "instance"

\* C6 amended: the class record is named Foo; every non-static method of its
\* body has memberof = Foo and scope = instance after symbolFound and keeps
\* memberof = Foo through parseComplete and processingComplete; it keeps
\* scope = instance exactly when no static-flagged record had its name when
\* a pass collected the static names, and is static otherwise.
C6_DefaultExportClass ==
    (pc \in {"discover", "parsed", "processed"} /\ HasDefaultFoo) =>
        \A i \in Indices(doclets) :
            /\ DefaultFoo(doclets[i]) =>
                  doclets[i].codeName = Str("Foo") /\ pre[i].name = Str("Foo")
            /\ MethodOfFoo(doclets[i]) =>
                  /\ doclets[i].memberof = Str("Foo")
                  /\ pre[i].scope = "instance"
                  /\ doclets[i].scope =
                        IF doclets[i].name \in staticSeen THEN "static" ELSE "instance"

\* class Foo with a method that went through both passes and stayed an
\* instance member, next to one that a static namesake turned static
C6_Witness ==
    /\ pc = "processed" /\ HasDefaultFoo
    /\ \E i \in Indices(doclets) :
          /\ MethodOfFoo(doclets[i])
          /\ doclets[i].scope = "instance" /\ doclets[i].memberof = Str("Foo")
          /\ staticSeen # {}

\* function-kind records of class method definitions
MethodRecords ==
    { i \in Found : doclets[i].kind = "function" /\ doclets[i].nodeType = "MethodDefinition" }

ArrowPrivateFields ==
    { i \in Found :
        /\ pre[i].kind = "member" /\ ~doclets[i].nodeStatic
        /\ isPrivateProperty(doclets[i])
        /\ (doclets[i].type = "ArrowFunctionExpression"
            \/ doclets[i].valueType = "ArrowFunctionExpression") }

\* C8 as stated: after parseComplete every non-static private field with an
\* arrow-function initializer has kind = function, access = private, a name
\* with the '#' sigil and scope = instance.
C8_AsStated ==
    pc = "parsed" =>
        \A i \in ArrowPrivateFields :
            /\ doclets[i].kind = "function"
            /\ doclets[i].access = "private"
            /\ StartsWith(doclets[i].name, Hash)
            /\ doclets[i].scope = "instance"

\* C8 amended: after parseComplete such a record has kind = function,
\* access = private and a name with exactly one leading '#'; its scope is
\* instance unless a static-flagged record of the list has the same name,
\* in which case Phase 2.9 makes it static.
C8_ArrowPrivateField ==
    pc = "parsed" =>
        \A i \in ArrowPrivateFields :
            /\ doclets[i].kind = "function"
            /\ doclets[i].access = "private"
            /\ LeadingHashes(doclets[i].name) = 1
            /\ doclets[i].scope =
                  IF doclets[i].name \in staticSeen THEN "static" ELSE "instance"

\* a field whose arrow function sits in the initializer (node.value), turned
\* into a private instance function
C8_Witness ==
    /\ pc = "parsed"
    /\ \E i \in ArrowPrivateFields :
          /\ doclets[i].type = "ClassPrivateProperty"
          /\ doclets[i].valueType = "ArrowFunctionExpression"
          /\ pre[i].name = Str("x")
          /\ doclets[i].kind = "function" /\ doclets[i].scope = "instance"
          /\ doclets[i].name = <<Hash, "x">>

\* records of assignments this.#x = ... whose name symbolFound recovers
PrivateAssignments ==
    { i \in Found :
        /\ doclets[i].astType = "AssignmentExpression"
        /\ doclets[i].leftType = "MemberExpression"
        /\ doclets[i].leftPropType = "PrivateName"
        /\ Truthy(doclets[i].leftPropName)
        /\ pre[i].kind = "member" /\ pre[i].scope = "inner" }

\* C9: symbolFound replaces the malformed name 'this.' of such a record, and
\* after parseComplete it is named '#' + the private identifier, private and
\* instance-scoped, with or without an undocumented placeholder of that name
\* in the list.
C9_PrivateAssignment ==
    pc = "parsed" =>
        \A i \in PrivateAssignments :
            /\ doclets[i].codeName = doclets[i].leftPropName
            /\ doclets[i].name = <<Hash>> \o doclets[i].leftPropName
            /\ doclets[i].access = "private"
            /\ doclets[i].scope = "instance"

\* records the placeholder merge renames
ShadowRenamed ==
    { i \in Found :
        /\ pre[i].kind = "member" /\ pre[i].scope = "inner"
        /\ pre[i].name \in privatePropNames(Inputs) }

\* C10: after parseComplete every private field record and every renamed
\* shadow record has a name with exactly one leading '#' and longname =
\* memberof + '#' + name, or memberof + '.' + name when its scope is static.
C10_PrivateFieldContract ==
    pc = "parsed" =>
        \A i \in Found :
            (isPrivateProperty(doclets[i]) \/ i \in ShadowRenamed) =>
                /\ LeadingHashes(doclets[i].name) = 1
                /\ doclets[i].longname = ScopedLongname(doclets[i])

\* what identifies a record across the passes: its descriptor
Descriptor(d) ==
    <<d.codeName, d.type, d.nodeType, d.keyType, d.keyIdName, d.nodeStatic,
      d.valueType, d.astType, d.parentType, d.parentClassType, d.parentClassName,
      d.typeTag, d.propKey, d.copy>>

\* C11: no handler adds, removes or reorders records: a discovery event
\* leaves the records already filed as they are, parseComplete and
\* processingComplete keep the length of the list and the record at every
\* position, and a memberof is cleared only on an export wrapper (name
\* 'exports', memberof 'module') by the default-export rules.
C11_RecordSetFrame ==
    [][ /\ (pc = "discover" /\ pc' = "discover") =>
              SubSeq(doclets', 1, Len(doclets)) = doclets
        /\ pc' # pc =>
              /\ Len(doclets') = Len(doclets)
              /\ \A i \in Indices(doclets) :
                    /\ Descriptor(doclets'[i]) = Descriptor(doclets[i])
                    /\ (doclets[i].memberof # Undef /\ doclets'[i].memberof = Undef) =>
                          /\ doclets[i].name = Str("exports")
                          /\ doclets[i].memberof = Str("module")
                          /\ pc = "discover" ]_vars

\* a two-record list whose export wrapper was rehomed, still two records
C11_Witness ==
    /\ pc = "processed" /\ Len(doclets) = 2 /\ Len(pre) = 2
    /\ \E i \in Found :
          /\ pre[i].name = Str("exports") /\ pre[i].memberof = Str("module")
          /\ doclets[i].memberof = Undef /\ doclets[i].name = Str("f")

\* C12: no handler raises an exception, whatever fields the records and
\* nodes lack: a run never ends in the thrown state.
C12_NoException == pc # "thrown"

\* the object literals assigned to the export slot, as filed
ExportObjects ==
    { i \in Found : /\ pre[i].kind = "member" /\ pre[i].name = Str("exports")
                    /\ pre[i].memberof = Str("module")
                    /\ pre[i].type = "ObjectExpression" }

\* C13: after parseComplete an export-slot object literal is named, in name
\* and longname, by its @type annotation if there is one, else by its first
\* property's key with 'Config' appended if it has one, else 'defaultExport',
\* and its memberof is cleared.
C13_ObjectLiteralName ==
    pc = "parsed" =>
       \A i \in ExportObjects :
          LET expected == IF Truthy(pre[i].typeTag) THEN pre[i].typeTag
                          ELSE IF Truthy(pre[i].propKey)
                               THEN pre[i].propKey \o <<"Config">>
                          ELSE Str("defaultExport")
          IN /\ doclets[i].name = expected
             /\ doclets[i].longname = expected
             /\ doclets[i].memberof = Undef

\* C14: after processingComplete every record whose name starts with '#'
\* has an access set (private where it was unset before), whether or not a
\* static-flagged record shares its name.
C14_AccessBackfill ==
    pc = "processed" =>
       \A i \in Indices(doclets) :
          StartsWith(doclets[i].name, Hash) => doclets[i].access = "private"

\* the records that are no ES6 class statics: no static flag on their own
\* descriptor, instance scope when parseComplete receives them
InstanceMembers ==
    { i \in Found : ~pre[i].nodeStatic /\ pre[i].scope = "instance" }

C16_UndocumentedKept ==
    /\ Len(doclets) = Len(pre)
    /\ \A i \in Indices(doclets) : doclets[i].undocumented = pre[i].undocumented

\* an undocumented assignment record that was merged and renamed, and an
\* undocumented placeholder that got the sigil, both still undocumented
C16_Witness ==
    /\ pc = "processed"
    /\ \E i \in Found :
          /\ pre[i].undocumented /\ pre[i].scope = "inner"
          /\ doclets[i].scope = "instance" /\ doclets[i].name = <<Hash, "x">>
          /\ doclets[i].undocumented
    /\ \E j \in Found :
          /\ pre[j].undocumented /\ pre[j].type = "ClassPrivateProperty"
          /\ pre[j].name = Str("x") /\ doclets[j].name = <<Hash, "x">>
          /\ doclets[j].undocumented

\* the undocumented private-field placeholders, as filed
Placeholders ==
    { i \in Found : pre[i].undocumented /\ pre[i].type = "ClassPrivateProperty" }

\* C17 as stated: parseComplete leaves an undocumented private-field
\* placeholder untouched in name, longname, memberof, kind, scope, access and
\* undocumented.
C17_AsStated ==
    pc = "parsed" =>
       \A i \in Placeholders :
          /\ doclets[i].name = pre[i].name
          /\ doclets[i].longname = pre[i].longname
          /\ doclets[i].memberof = pre[i].memberof
          /\ doclets[i].kind = pre[i].kind
          /\ doclets[i].scope = pre[i].scope
          /\ doclets[i].access = pre[i].access
          /\ doclets[i].undocumented = pre[i].undocumented

\* C17: parseComplete keeps an undocumented private-field placeholder
\* undocumented and does not merge it, but applies the private-member
\* contract to it: the name gets the '#' prefix if it lacks one, access
\* becomes private, the longname is derived when absent or equal to memberof;
\* scope, memberof and the longname's separator stay unless the name is a
\* static name, and then the scope is static.
C17_PlaceholderContract ==
    pc = "parsed" =>
       \A i \in Placeholders :
          LET n == IF StartsWith(pre[i].name, Hash) THEN pre[i].name
                   ELSE <<Hash>> \o pre[i].name
              l == IF ~Truthy(pre[i].longname) \/ pre[i].longname = pre[i].memberof
                   THEN HashJoin(pre[i].memberof, n) ELSE pre[i].longname
          IN /\ doclets[i].undocumented
             /\ doclets[i].kind = IF isArrowMethod(pre[i]) THEN "function" ELSE pre[i].kind
             /\ doclets[i].name = n
             /\ doclets[i].access = "private"
             /\ IF n \in staticSeen THEN doclets[i].scope = "static"
                ELSE /\ doclets[i].scope = pre[i].scope
                     /\ doclets[i].memberof = pre[i].memberof
                     /\ doclets[i].longname = l

\* a placeholder named x that left the pass as '#x', private and still
\* undocumented, next to its merged shadow record
C17_Witness ==
    /\ pc = "parsed"
    /\ \E i \in Placeholders :
          /\ pre[i].name = Str("x") /\ doclets[i].name = <<Hash, "x">>
          /\ pre[i].access = "unset" /\ doclets[i].access = "private"
          /\ doclets[i].undocumented /\ doclets[i].scope = "instance"
    /\ \E j \in Found :
          /\ pre[j].scope = "inner" /\ ~pre[j].undocumented
          /\ doclets[j].scope = "instance" /\ doclets[j].name = <<Hash, "x">>

\* the records that met the default-export rule of symbolFound
DefaultExports ==
    { i \in Found :
        /\ pre[i].rawName = ModuleExports
        /\ pre[i].type \in {"ClassDeclaration", "FunctionDeclaration", "ObjectExpression"}
        /\ pre[i].parentType = "ExportDefaultDeclaration" }

\* C18 as stated: no record that met the default-export rule, whatever its
\* descriptor type, keeps the export-slot name 'module.exports'.
C18_AsStated ==
    \A i \in DefaultExports : pre[i].codeName # ModuleExports

\* C18: a record that met the default-export rule leaves symbolFound named
\* by the declared identifier if there is one, else 'anonymousFunction' for a
\* function declaration, else 'defaultExport' for an object literal; a class
\* declaration without identifier keeps 'module.exports'.
C18_DefaultExportName ==
    \A i \in DefaultExports :
       pre[i].codeName =
          IF Truthy(pre[i].declIdName) THEN pre[i].declIdName
          ELSE IF pre[i].type = "FunctionDeclaration" THEN Str("anonymousFunction")
          ELSE IF pre[i].type = "ObjectExpression" THEN Str("defaultExport")
          ELSE ModuleExports

\* an anonymous default function and a default object literal, both renamed
C18_Witness ==
    /\ \E i \in DefaultExports :
          /\ pre[i].type = "FunctionDeclaration" /\ pre[i].declIdName = Undef
          /\ pre[i].name = Str("anonymousFunction")
    /\ \E j \in DefaultExports :
          /\ pre[j].type = "ObjectExpression" /\ pre[j].name = Str("defaultExport")

\* the function-kind export wrappers, as filed
Wrappers ==
    { i \in Found : /\ pre[i].kind = "function" /\ pre[i].name = Str("exports")
                    /\ pre[i].memberof = Str("module") }

\* the class methods the extractor left at module level and which
\* parseComplete relinked to a class
RelinkedMethods ==
    { j \in Found : /\ pre[j].nodeType = "MethodDefinition" /\ pre[j].scope = "global"
                    /\ doclets[j].scope = "instance"
                    /\ doclets[j].memberof # pre[j].memberof }

\* the functions declared at module level
TopLevelFunctions ==
    { k \in Found : /\ pre[k].kind = "function" /\ pre[k].scope = "global"
                    /\ pre[k].nodeType # "MethodDefinition"
                    /\ pre[k].name # Str("exports") }

\* C19: a function-kind export wrapper rehomed by parseComplete never takes
\* the name of a class method that the same pass relinks to a class; the name
\* it takes is that of a module-level function, wherever in the list the
\* method stands.
C19_WrapperName ==
    pc = "parsed" =>
       \A i \in Wrappers : \A j \in RelinkedMethods :
          doclets[i].name = doclets[j].name =>
             \E k \in TopLevelFunctions : pre[k].name = doclets[i].name

\* the records that meet no rule's precondition
Bystanders ==
    { i \in Found :
        LET d == pre[i]
        IN /\ ~isPrivateMethod(d) /\ ~isPrivateProperty(d)
           /\ d.type # "ArrowFunctionExpression" /\ d.valueType # "ArrowFunctionExpression"
           /\ ~d.nodeStatic /\ ~d.astStatic
           /\ d.parentType # "ExportDefaultDeclaration"
           /\ d.type # "MethodDefinition" /\ d.nodeType # "MethodDefinition"
           /\ d.rawName \notin {ThisDot, ModuleExports, Str("exports")}
           /\ d.name \notin privatePropNames(Inputs)
           /\ d.name \notin staticSeen }

\* C20: a record that meets no rule's precondition has every field as the
\* extractor delivered it, after symbolFound, after parseComplete and after
\* processingComplete, whatever the other records of the list are.
C20_BystanderFrame ==
    \A i \in Bystanders :
       /\ pre[i].name = pre[i].rawName /\ pre[i].codeName = pre[i].rawName
       /\ pre[i].memberof = pre[i].rawMemberof
       /\ pre[i].scope = pre[i].rawScope
       /\ doclets[i] = pre[i]

\* a plain class property or a mixin member, untouched after the completion
\* events and their repetition, in a list where a static member of another
\* name was propagated
C20_Witness ==
    /\ pc = "done" /\ staticSeen # {}
    /\ \E i \in Bystanders :
          /\ pre[i].type \in {"ClassProperty", "FunctionExpression"}
          /\ doclets[i] = pre[i]

====
